---- MODULE Spec2Model ----
(***************************************************************************)
(* Model of bubble/src/main.rs: the Watts-Strogatz generator                *)
(* (Matrix::wattz_strogatz) and the opinion simulation loop of main.        *)
(*                                                                         *)
(* Numbers.  The program computes in f64.  The model carries every real as *)
(* an integer count of a fixed unit:                                       *)
(*   opinions, messages, thresholds : 1/OpinionUnit of an opinion point    *)
(*   weights                        : 1/WeightUnit                         *)
(*   random draws in [0,1), beta    : 1/ProbUnit                           *)
(* WeightUnit = 100 * OpinionUnit, so x/100.0 of an opinion quantity is a  *)
(* whole number of weight units and the weight arithmetic is exact.  The   *)
(* product weight * (message - opinion)/100 is rounded to the nearest      *)
(* opinion unit, as f64 rounds to the nearest representable value.         *)
(***************************************************************************)
EXTENDS Integers, Sequences, FiniteSets, TLC

\* ---- bounds of the model ------------------------------------------------
\* largest population the generator is run with on its own (SpecGen)
GenMaxN == 5
\* number of simulated ticks (stands for max_time - 1 = 9999)
MaxTick == 2

\* ---- units ----------------------------------------------------------------
OpinionUnit == 200
WeightUnit == 100 * OpinionUnit
ProbUnit == 4

\* the values rng.next_f64() is drawn from: 0.0, 0.25, 0.75 (the range is [0,1))
Draws == {0, 1, 3}
\* the rewire probabilities tried: 0.0, 0.5, 1.0
Betas == {0, ProbUnit \div 2, ProbUnit}
\* the (consensus, opposition) thresholds tried, in opinion points
Thresholds == {<<10, 40>>, <<60, 60>>}
\* the values |N(50,10)| is drawn from, in opinion points
InitialOpinions == {50, 120}
\* the values N(opinions[sender],10) is drawn from, in opinion points
Messages == {0, 55, 60}

\* (population, degree) pairs: degree even, 0 <= degree < population
Configs(maxN) == {nk \in (1..maxN) \X (0..maxN) : nk[2] % 2 = 0 /\ nk[2] < nk[1]}

\* Scenario A of the specification: population 6, degree 2
ScenarioA == <<6, 2>>

\* the (population, degree) pairs a whole run of main is followed on
SimConfigs == {<<1, 0>>, <<2, 0>>, <<3, 0>>, <<3, 2>>}

VARIABLES args, pc, matrix, row, col, iter, new_col,
          opinions, tick, sender, message, recipient,
          network_file, opinion_file

vars == <<args, pc, matrix, row, col, iter, new_col,
          opinions, tick, sender, message, recipient,
          network_file, opinion_file>>

\* ---- arithmetic helpers ---------------------------------------------------
Abs(x) == IF x < 0 THEN -x ELSE x

\* x / d rounded to the nearest integer (d > 0)
RoundDiv(x, d) == IF x >= 0 THEN (2 * x + d) \div (2 * d)
                  ELSE -((2 * (-x) + d) \div (2 * d))

\* an opinion quantity divided by 100.0, in weight units
Per100(x) == (x * WeightUnit) \div (100 * OpinionUnit)

\* ---- Matrix<T> ------------------------------------------------------------
default == 0
marker == WeightUnit \div 2
max_time == MaxTick + 1

new(size) == [size |-> size, data |-> [i \in 0..(size * size - 1) |-> default]]

size_of(m) == m.size

index_for(m, r, c) == r * m.size + c

get(m, r, c) == m.data[index_for(m, r, c)]

\* put that forgets the mirrored cell
put_one_cell(m, r, c, value) ==
    [m EXCEPT !.data = [m.data EXCEPT ![index_for(m, r, c)] = value]]

put(m, r, c, value) ==
    LET d1 == [m.data EXCEPT ![index_for(m, r, c)] = value]
        d2 == [d1 EXCEPT ![index_for(m, c, r)] = value]
    IN  [m EXCEPT !.data = d2]

\* ---- wattz_strogatz, phase A: ring lattice --------------------------------
\* half_k without the division by two
half_k_unhalved(k) == k

half_k(k) == k \div 2

start_col(m, k, r) == size_of(m) - half_k(k) + r

wrap(m, c) == IF c > size_of(m) - 1 THEN c - size_of(m) ELSE c

lattice_iterations(k) == k + 1

is_self(r, c) == c = r

\* one pass of the inner loop `for _ in 0..(k+1)`
LatticeStep ==
    /\ pc = "lattice"
    /\ iter < lattice_iterations(args.arg_degree)
    /\ LET c == wrap(matrix, col)
       IN  /\ matrix' = IF is_self(row, c) THEN matrix ELSE put(matrix, row, c, marker)
           /\ col' = c + 1
    /\ iter' = iter + 1
    /\ UNCHANGED <<args, pc, row, new_col, opinions, tick, sender, message,
                   recipient, network_file, opinion_file>>

\* the inner loop is over: next row of `for row in 0..n`, or on to the rewiring
LatticeNextRow ==
    /\ pc = "lattice"
    /\ iter = lattice_iterations(args.arg_degree)
    /\ IF row + 1 < args.arg_population
       THEN /\ row' = row + 1
            /\ col' = start_col(matrix, args.arg_degree, row + 1)
            /\ iter' = 0
            /\ pc' = pc
       ELSE /\ row' = 0
            /\ col' = 0
            /\ iter' = 0
            /\ pc' = "rewire"
    /\ UNCHANGED <<args, matrix, new_col, opinions, tick, sender, message,
                   recipient, network_file, opinion_file>>

\* ---- wattz_strogatz, phase B: rewiring ------------------------------------
\* `value == marker && rng.next_f64() <= beta`
attempt_rewire(value, draw, beta) == value = marker /\ draw <= beta

\* `rng.next_f64() <= 1.0/(n as f64)`
accept(draw, n) == draw * n <= ProbUnit

\* the candidate scan without its `new_col == row` skip
skip_candidate_never(r, c) == FALSE

skip_candidate(r, c) == c = r

\* the four puts of an accepted rewire
rewire(m, r, c, nc) ==
    put(put(put(put(m, r, c, default), c, r, default), r, nc, marker), nc, r, marker)

\* body of `for col in 0..row` up to the candidate scan
RewireTest ==
    /\ pc = "rewire"
    /\ row < args.arg_population
    /\ col < row
    /\ \E draw \in Draws :
          IF attempt_rewire(get(matrix, row, col), draw, args.arg_rewire)
          THEN /\ pc' = "scan"
               /\ new_col' = 0
               /\ col' = col
          ELSE /\ pc' = pc
               /\ new_col' = new_col
               /\ col' = col + 1
    /\ UNCHANGED <<args, matrix, row, iter, opinions, tick, sender, message,
                   recipient, network_file, opinion_file>>

\* `for col in 0..row` is over: next row, or return the matrix
RewireNextRow ==
    /\ pc = "rewire"
    /\ row < args.arg_population
    /\ col = row
    /\ IF row + 1 < args.arg_population
       THEN /\ row' = row + 1
            /\ pc' = pc
       ELSE /\ row' = row
            /\ pc' = "return"
    /\ col' = 0
    /\ UNCHANGED <<args, matrix, iter, new_col, opinions, tick, sender, message,
                   recipient, network_file, opinion_file>>

\* one pass of `for new_col in 0..n`
ScanStep ==
    /\ pc = "scan"
    /\ new_col < args.arg_population
    /\ IF skip_candidate(row, new_col)
       THEN /\ new_col' = new_col + 1
            /\ UNCHANGED <<matrix, pc, col>>
       ELSE \E draw \in Draws :
               IF accept(draw, args.arg_population)
               THEN /\ matrix' = rewire(matrix, row, col, new_col)
                    /\ pc' = "rewire"
                    /\ col' = col + 1
                    /\ new_col' = new_col
               ELSE /\ new_col' = new_col + 1
                    /\ UNCHANGED <<matrix, pc, col>>
    /\ UNCHANGED <<args, row, iter, opinions, tick, sender, message,
                   recipient, network_file, opinion_file>>

\* every candidate was rejected: the edge stays
ScanEnd ==
    /\ pc = "scan"
    /\ new_col = args.arg_population
    /\ pc' = "rewire"
    /\ col' = col + 1
    /\ UNCHANGED <<args, matrix, row, iter, new_col, opinions, tick, sender,
                   message, recipient, network_file, opinion_file>>

\* ---- main: opinions and the initial network rows --------------------------
\* `for _ in 0..population { opinions.push(opinion_distribution.ind_sample(..).abs()) }`
InitOpinions ==
    /\ pc = "return"
    /\ \E f \in [0..(args.arg_population - 1) -> InitialOpinions] :
          opinions' = [i \in 0..(args.arg_population - 1) |-> Abs(f[i] * OpinionUnit)]
    /\ pc' = "store"
    /\ UNCHANGED <<args, matrix, row, col, iter, new_col, tick, sender, message,
                   recipient, network_file, opinion_file>>

\* the rows of tick 0 written for sender s, recipients 0..r-1
RECURSIVE initial_rows_of(_, _, _)
initial_rows_of(m, s, r) ==
    IF r = 0 THEN <<>>
    ELSE LET weight == get(m, s, r - 1)
             before == initial_rows_of(m, s, r - 1)
         IN  IF s = r - 1 \/ weight = 0 THEN before
             ELSE Append(before, <<0, s, r - 1, weight>>)

\* the rows of tick 0 written for senders 0..s-1
RECURSIVE initial_rows(_, _)
initial_rows(m, s) ==
    IF s = 0 THEN <<>>
    ELSE initial_rows(m, s - 1) \o initial_rows_of(m, s - 1, s - 1)

\* "Store the initial state of the matrix"
StoreInitial ==
    /\ pc = "store"
    /\ network_file' = network_file \o initial_rows(matrix, args.arg_population)
    /\ tick' = 1
    /\ pc' = "tick"
    /\ UNCHANGED <<args, matrix, row, col, iter, new_col, opinions, sender, message,
                   recipient, opinion_file>>

\* ---- main: the simulation loop ----------------------------------------------
\* `for tick in 1..max_time`: draw the sender and the message
TickStart ==
    /\ pc = "tick"
    /\ tick < max_time
    /\ \E s \in 0..(args.arg_population - 1), msg \in Messages :
          /\ sender' = s
          /\ message' = msg * OpinionUnit
    /\ recipient' = 0
    /\ pc' = "recipients"
    /\ UNCHANGED <<args, matrix, row, col, iter, new_col, opinions, tick,
                   network_file, opinion_file>>

\* the skip test with `<` in place of `<=`
not_connected_strict(weight) == weight < 0

\* `if social_network.get(sender, recipient) <= 0.0 { continue }`
not_connected(weight) == weight <= 0

\* `social_network.get(sender, recipient) * ((message - opinions[recipient])/100.0)`
opinion_change(weight, msg, opinion) ==
    RoundDiv(weight * (msg - opinion), WeightUnit * 100)

\* the consensus test with `<=` in place of `<`
is_consensus_inclusive(difference, consensus) == difference <= consensus

is_consensus(difference, consensus) == difference < consensus

is_opposition(difference, irreconsilable) == difference > irreconsilable

\* the consensus update without its cap at 1.0
consensus_strength_uncapped(strength, consensus, difference) ==
    strength + Per100(consensus - difference)

consensus_strength(strength, consensus, difference) ==
    LET new_strength == strength + Per100(consensus - difference)
    IN  IF new_strength > WeightUnit THEN WeightUnit ELSE new_strength

opposition_strength(strength, irreconsilable, difference) ==
    LET new_strength == strength - Per100(difference - irreconsilable)
    IN  IF new_strength < 0 THEN 0 ELSE new_strength

consensus_opinion(opinion, msg, change) ==
    IF msg < opinion THEN opinion - Abs(change) ELSE opinion + Abs(change)

opposition_opinion(opinion, msg, change) ==
    IF msg < opinion THEN opinion + Abs(change) ELSE opinion - Abs(change)

\* the weight between sender s and recipient r after the recipient's update
updated_network(m, s, r, msg, opinion, consensus, irreconsilable) ==
    LET difference == Abs(msg - opinion)
        strength == get(m, s, r)
    IN  IF is_consensus(difference, consensus)
        THEN put(m, s, r, consensus_strength(strength, consensus, difference))
        ELSE IF is_opposition(difference, irreconsilable)
        THEN put(m, s, r, opposition_strength(strength, irreconsilable, difference))
        ELSE m

\* the recipient's opinion after its update
updated_opinion(weight, msg, opinion, consensus, irreconsilable) ==
    LET change == opinion_change(weight, msg, opinion)
        difference == Abs(msg - opinion)
    IN  IF is_consensus(difference, consensus)
        THEN consensus_opinion(opinion, msg, change)
        ELSE IF is_opposition(difference, irreconsilable)
        THEN opposition_opinion(opinion, msg, change)
        ELSE opinion

\* the row written only inside the two branches that change the weight
write_network_if_changed(file, t, s, r, before, after) ==
    IF after = before THEN file ELSE Append(file, <<t, s, r, get(after, s, r)>>)

\* the network file after the `write!` that ends the loop body: the row carries
\* the weight read back after the update
write_network(file, t, s, r, before, after) == Append(file, <<t, s, r, get(after, s, r)>>)

\* one pass of `for recipient in 0..population`
RecipientStep ==
    /\ pc = "recipients"
    /\ recipient < args.arg_population
    /\ IF not_connected(get(matrix, sender, recipient))
       THEN UNCHANGED <<matrix, opinions, network_file>>
       ELSE /\ matrix' = updated_network(matrix, sender, recipient, message,
                                         opinions[recipient], args.arg_consensus,
                                         args.arg_opposition)
            /\ opinions' = [opinions EXCEPT ![recipient] =
                              updated_opinion(get(matrix, sender, recipient), message,
                                              opinions[recipient], args.arg_consensus,
                                              args.arg_opposition)]
            /\ network_file' = write_network(network_file, tick, sender, recipient,
                                              matrix, matrix')
    /\ recipient' = recipient + 1
    /\ UNCHANGED <<args, pc, row, col, iter, new_col, tick, sender, message,
                   opinion_file>>

\* the cleanup without its upper branch
clamp_lower_only(opinion) == IF opinion < 0 THEN 0 ELSE opinion

\* "Cleanup opinions to be within [0, 100]"
clamp(opinion) ==
    IF opinion < 0 THEN 0
    ELSE IF opinion > 100 * OpinionUnit THEN 100 * OpinionUnit
    ELSE opinion

Clamp ==
    /\ pc = "recipients"
    /\ recipient = args.arg_population
    /\ opinions' = [i \in DOMAIN opinions |-> clamp(opinions[i])]
    /\ pc' = "emit"
    /\ UNCHANGED <<args, matrix, row, col, iter, new_col, tick, sender, message,
                   recipient, network_file, opinion_file>>

\* the rows of the opinion file for agents 0..i-1
RECURSIVE opinion_rows(_, _, _)
opinion_rows(t, ops, i) ==
    IF i = 0 THEN <<>>
    ELSE Append(opinion_rows(t, ops, i - 1), <<t, i - 1, ops[i - 1]>>)

\* the opinion rows of the tick, then the next tick
EmitOpinions ==
    /\ pc = "emit"
    /\ opinion_file' = opinion_file \o opinion_rows(tick, opinions, args.arg_population)
    /\ tick' = tick + 1
    /\ pc' = "tick"
    /\ UNCHANGED <<args, matrix, row, col, iter, new_col, opinions, sender, message,
                   recipient, network_file>>

\* the tick loop is over
Finish ==
    /\ pc = "tick"
    /\ tick = max_time
    /\ pc' = "done"
    /\ UNCHANGED <<args, matrix, row, col, iter, new_col, opinions, tick, sender,
                   message, recipient, network_file, opinion_file>>

\* ---- specifications -----------------------------------------------------------
InitWith(configs, betas, thresholds) ==
    /\ \E nk \in configs, b \in betas, th \in thresholds :
          /\ args = [arg_population |-> nk[1], arg_degree |-> nk[2], arg_rewire |-> b,
                     arg_consensus |-> th[1] * OpinionUnit,
                     arg_opposition |-> th[2] * OpinionUnit]
          /\ matrix = new(nk[1])
          /\ col = start_col(new(nk[1]), nk[2], 0)
    /\ pc = "lattice"
    /\ row = 0
    /\ iter = 0
    /\ new_col = 0
    /\ opinions = <<>>
    /\ tick = 0
    /\ sender = 0
    /\ message = 0
    /\ recipient = 0
    /\ network_file = <<>>
    /\ opinion_file = <<>>

\* the generator on its own, on every configuration up to GenMaxN and Scenario A
InitGen == InitWith(Configs(GenMaxN) \cup {ScenarioA}, Betas, {<<10, 40>>})

NextGen == LatticeStep \/ LatticeNextRow \/ RewireTest \/ RewireNextRow
           \/ ScanStep \/ ScanEnd

SpecGen == InitGen /\ [][NextGen]_vars

\* a whole run of main
Init == InitWith(SimConfigs, Betas, Thresholds)

Next == LatticeStep \/ LatticeNextRow \/ RewireTest \/ RewireNextRow
        \/ ScanStep \/ ScanEnd \/ InitOpinions \/ StoreInitial \/ TickStart
        \/ RecipientStep \/ Clamp \/ EmitOpinions \/ Finish

Spec == Init /\ [][Next]_vars

\* ---- properties ---------------------------------------------------------------
Nodes == 0..(args.arg_population - 1)

Min(a, b) == IF a < b THEN a ELSE b

Max(a, b) == IF a > b THEN a ELSE b

SimPcs == {"tick", "recipients", "emit", "done"}

\* the unordered pairs {i,j}, i # j, joined by a nonzero weight
Edges(m) == {p \in Nodes \X Nodes : p[1] > p[2] /\ m.data[p[1] * m.size + p[2]] # 0}

\* the ring lattice of the specification: i is joined to (i-d) mod n and (i+d) mod n,
\* d in 1..k/2, with the marker weight, and to nothing else
RingLattice(n, k) ==
    [idx \in 0..(n * n - 1) |->
        LET i == idx \div n
            j == idx % n
        IN  IF \E d \in 1..(k \div 2) : j = (i + d) % n \/ j = (i - d + n) % n
            THEN WeightUnit \div 2
            ELSE 0]

Symmetric(m) == \A i, j \in Nodes : m.data[i * m.size + j] = m.data[j * m.size + i]

\* the unordered pairs (diagonal included) one of whose cells differs between m1 and m2
ChangedPairs(m1, m2) ==
    {p \in Nodes \X Nodes :
        /\ p[1] >= p[2]
        /\ \/ m1.data[p[1] * m1.size + p[2]] # m2.data[p[1] * m2.size + p[2]]
           \/ m1.data[p[2] * m1.size + p[1]] # m2.data[p[2] * m2.size + p[1]]}

\* C1: when wattz_strogatz returns, the number of unordered pairs {i,j}, i # j, with
\* nonzero weight is the ring lattice's n*k/2 (rewiring conserves the edge count).
RewireConservesEdges ==
    pc = "return" =>
        Cardinality(Edges(matrix)) = (args.arg_population * args.arg_degree) \div 2

\* C2: with beta = 0.0 no rewiring occurs whatever the draws: from the end of phase A
\* on, the graph is exactly the ring lattice.
BetaZeroKeepsLattice ==
    (args.arg_rewire = 0 /\ pc \in {"rewire", "scan", "return"}) =>
        matrix.data = RingLattice(args.arg_population, args.arg_degree)

\* C3: immediately after phase A the matrix is the ring lattice: every node has exactly
\* k nonzero cells in its row, they are its k/2 nearest predecessors and successors
\* modulo n, each holds the marker, and every other cell is zero.
AfterPhaseA == pc = "rewire" /\ row = 0 /\ col = 0

RingLatticeDegree ==
    AfterPhaseA =>
        /\ matrix.data = RingLattice(args.arg_population, args.arg_degree)
        /\ \A i \in Nodes :
              Cardinality({j \in Nodes : matrix.data[i * matrix.size + j] # 0})
                 = args.arg_degree

RingLatticeDegreeWitness ==
    /\ AfterPhaseA
    /\ args.arg_population = 5
    /\ args.arg_degree = 4
    /\ matrix.data[0 * 5 + 3] = WeightUnit \div 2
    /\ matrix.data[4 * 5 + 1] = WeightUnit \div 2

\* C4: the matrix is symmetric in every state, and a step that makes one put (a lattice
\* step, a recipient update) changes the two cells of one pair and nothing else; an
\* accepted rewire changes at most the old and the new pair.
SymmetryAlways ==
    [][ /\ Symmetric(matrix)
        /\ Symmetric(matrix')
        /\ pc \in {"lattice", "recipients"} => Cardinality(ChangedPairs(matrix, matrix')) <= 1
        /\ pc = "scan" =>
              ChangedPairs(matrix, matrix') \subseteq
                 {<<row, col>>, <<Max(row, new_col), Min(row, new_col)>>}
        /\ pc \notin {"lattice", "recipients", "scan"} => matrix' = matrix ]_vars

SymmetryWitness ==
    /\ pc = "done"
    /\ args.arg_population = 3
    /\ \E i, j \in Nodes :
          /\ i # j
          /\ matrix.data[i * matrix.size + j] \notin {0, WeightUnit \div 2}
          /\ matrix.data[j * matrix.size + i] = matrix.data[i * matrix.size + j]
    /\ Cardinality(Edges(matrix)) < 3

\* C5: no diagonal cell is ever nonzero.
NoSelfLoops == \A i \in Nodes : matrix.data[i * matrix.size + i] = 0

NoSelfLoopsWitness ==
    /\ pc = "emit"
    /\ tick = 2
    /\ args.arg_degree = 2
    /\ Cardinality(Edges(matrix)) = 2
    /\ \E i \in Nodes : matrix.data[sender * matrix.size + i] > WeightUnit \div 2
    /\ \A i \in Nodes : matrix.data[i * matrix.size + i] = 0

\* C6: every weight stays within [0,1]; a consensus update never lowers the weight and
\* an opposition update never raises it.
WeightsInRange(m) == \A idx \in DOMAIN m.data : 0 <= m.data[idx] /\ m.data[idx] <= WeightUnit

WeightBounds ==
    [][ /\ WeightsInRange(matrix)
        /\ WeightsInRange(matrix')
        /\ (pc = "recipients" /\ recipient < args.arg_population) =>
              LET idx == sender * matrix.size + recipient
                  d == Abs(message - opinions[recipient])
              IN  /\ d < args.arg_consensus => matrix'.data[idx] >= matrix.data[idx]
                  /\ d >= args.arg_consensus => matrix'.data[idx] <= matrix.data[idx] ]_vars

WeightBoundsWitness ==
    /\ pc = "done"
    /\ \E idx \in DOMAIN matrix.data : matrix.data[idx] = WeightUnit
    /\ \E row0 \in 1..Len(network_file) :
          network_file[row0][1] >= 1 /\ network_file[row0][4] = 0

\* C7: after the clamp of every tick, and in every opinion row written, every opinion
\* is within [0,100].
OpinionInRange(x) == 0 <= x /\ x <= 100 * OpinionUnit

OpinionBounds ==
    /\ (pc = "emit" \/ pc = "done" \/ (pc = "tick" /\ tick > 1)) =>
          \A i \in Nodes : OpinionInRange(opinions[i])
    /\ \A r \in 1..Len(opinion_file) : OpinionInRange(opinion_file[r][3])

OpinionBoundsWitness ==
    /\ pc = "emit"
    /\ tick = 2
    /\ \E r \in 1..Len(network_file), i \in Nodes :
          /\ network_file[r][1] = 2
          /\ network_file[r][3] = i
          /\ network_file[r][4] < WeightUnit \div 2
          /\ opinion_file[i + 1] = <<1, i, 100 * OpinionUnit>>
          /\ opinions[i] = 100 * OpinionUnit
          /\ message = 0

\* C8: the update of a recipient joined to the sender by a weight w > 0, with
\* d = |message - opinion| and change = |w * (message - opinion)/100| taken from the
\* weight before the update: d < c gives weight min(1, w + (c-d)/100) and an opinion
\* nearer the message by change; otherwise d > o gives weight max(0, w - (d-o)/100)
\* and an opinion farther from the message by change; otherwise nothing changes.
\* No other opinion and no other pair of cells changes.  The two worked examples of
\* the specification give 0.55 / 50.025 and 0.4 / 50.25.
UpdateRule ==
    [][ (pc = "recipients" /\ recipient < args.arg_population
           /\ matrix.data[sender * matrix.size + recipient] > 0) =>
        LET idx == sender * matrix.size + recipient
            w == matrix.data[idx]
            op == opinions[recipient]
            c == args.arg_consensus
            o == args.arg_opposition
            d == Abs(message - op)
            change == Abs(RoundDiv(w * (message - op), 100 * WeightUnit))
            w2 == matrix'.data[idx]
            op2 == opinions'[recipient]
        IN  /\ d < c =>
                 /\ w2 = Min(WeightUnit, w + ((c - d) * WeightUnit) \div (100 * OpinionUnit))
                 /\ Abs(message - op2) = d - change
                 /\ Abs(op2 - op) = change
            /\ (d >= c /\ d > o) =>
                 /\ w2 = Max(0, w - ((d - o) * WeightUnit) \div (100 * OpinionUnit))
                 /\ Abs(message - op2) = d + change
                 /\ Abs(op2 - op) = change
            /\ (d >= c /\ d <= o) => (w2 = w /\ op2 = op)
            /\ \A i \in Nodes : i # recipient => opinions'[i] = opinions[i]
            /\ ChangedPairs(matrix, matrix') \subseteq
                  {<<Max(sender, recipient), Min(sender, recipient)>>}
            /\ (w = WeightUnit \div 2 /\ op = 50 * OpinionUnit
                  /\ message = 55 * OpinionUnit /\ c = 10 * OpinionUnit) =>
                  (w2 * 100 = 55 * WeightUnit /\ op2 * 1000 = 50025 * OpinionUnit)
            /\ (w = WeightUnit \div 2 /\ op = 50 * OpinionUnit
                  /\ message = 0 /\ c = 10 * OpinionUnit /\ o = 40 * OpinionUnit) =>
                  (w2 * 100 = 40 * WeightUnit /\ op2 * 100 = 5025 * OpinionUnit) ]_vars

UpdateRuleWitness ==
    /\ pc = "recipients"
    /\ tick = 1
    /\ recipient > 0
    /\ message = 55 * OpinionUnit
    /\ args.arg_consensus = 10 * OpinionUnit
    /\ matrix.data[sender * matrix.size + (recipient - 1)] * 100 = 55 * WeightUnit
    /\ opinions[recipient - 1] * 1000 = 50025 * OpinionUnit

\* C9: in a tick, a recipient with nonzero weight to the sender gets exactly one
\* network row (tick, sender, recipient, weight after the update), whatever the
\* regime; a recipient with zero weight gets none; nothing else writes network rows
\* during the ticks; and the tick's opinion rows, one per agent, come after them.
RowsOfTick(file, t) == {r \in 1..Len(file) : file[r][1] = t}

NetworkEvents ==
    [][ /\ (pc = "recipients" /\ recipient < args.arg_population) =>
              /\ network_file' =
                    IF matrix.data[sender * matrix.size + recipient] # 0
                    THEN network_file \o
                            << <<tick, sender, recipient,
                                 matrix'.data[sender * matrix.size + recipient]>> >>
                    ELSE network_file
              /\ RowsOfTick(opinion_file, tick) = {}
              /\ opinion_file' = opinion_file
        /\ (pc \in SimPcs /\ ~(pc = "recipients" /\ recipient < args.arg_population)) =>
              network_file' = network_file
        /\ (pc \in SimPcs /\ opinion_file' # opinion_file) =>
              /\ pc = "emit"
              /\ Len(opinion_file') = Len(opinion_file) + args.arg_population
              /\ \A i \in Nodes :
                    opinion_file'[Len(opinion_file) + i + 1] = <<tick, i, opinions[i]>>
        /\ (pc = "emit") => opinion_file' # opinion_file ]_vars

NetworkEventsWitness ==
    /\ pc = "done"
    /\ args.arg_population = 3
    /\ \E r1, r2 \in 1..Len(network_file) :
          /\ network_file[r1][1] = 2 /\ network_file[r1][4] = 0
          /\ network_file[r2][1] = 1 /\ network_file[r2][4] = WeightUnit \div 2
    /\ Cardinality(RowsOfTick(opinion_file, 1)) = 3
    /\ Cardinality(RowsOfTick(opinion_file, 2)) = 3

\* C10: during the ticks a zero weight stays zero, and every nonzero pair is one of
\* the generated topology's edges (those written as the rows of tick 0).
NoEdgeCreation ==
    [][ (pc \in SimPcs) =>
          /\ \A idx \in DOMAIN matrix.data : matrix.data[idx] = 0 => matrix'.data[idx] = 0
          /\ \A p \in Edges(matrix') :
                \E r \in RowsOfTick(network_file, 0) :
                   network_file[r][2] = p[1] /\ network_file[r][3] = p[2] ]_vars

NoEdgeCreationWitness ==
    /\ pc = "emit"
    /\ tick = 2
    /\ message = 55 * OpinionUnit
    /\ args.arg_consensus = 60 * OpinionUnit
    /\ \E r1, r2 \in 1..Len(network_file) :
          /\ network_file[r1][1] = 1 /\ network_file[r1][4] = 0
          /\ network_file[r1][2] = sender
          /\ network_file[r2][1] = 2
          /\ network_file[r2][2] = sender
          /\ network_file[r2][3] # network_file[r1][3]
          /\ matrix.data[sender * matrix.size + network_file[r1][3]] = 0
          /\ opinions[network_file[r1][3]] = 100 * OpinionUnit
          /\ \A r3 \in RowsOfTick(network_file, 2) :
                network_file[r3][3] # network_file[r1][3]

====
